---- MODULE Spec2Model ----
(***************************************************************************)
(* Polygon Explorer (src/poly.py): the regular-polygon geometry helpers,   *)
(* the Polygon Properties Calculator's derivation of a side length, the    *)
(* Polygon Art Creator's trace loop, the Quick Quiz's session state and    *)
(* the calls of the helpers that each module's run makes.                  *)
(*                                                                         *)
(* Numbers.  Python floats are modelled as exact reals, so a statement     *)
(* checked here is a statement about the formulas, up to the rounding of   *)
(* IEEE doubles.                                                           *)
(*   - an angle in degrees is a rational [num, den] in lowest terms;       *)
(*   - a length or an area is a "surd" [sg, n, d, e], standing for         *)
(*       sg * sqrt(n / d) * T^(e/2),   T = tan(pi / sides),                *)
(*     with n/d in lowest terms; products, quotients and the square roots  *)
(*     the code takes are exact in this form. tan(pi/4) = 1 is folded,     *)
(*     for every other side count T stays a symbol;                        *)
(*   - a coordinate is base + amp * cos|sin(2 pi * ph), ph a fraction of   *)
(*     a turn in [0, 1), with the values -1, 0, 1 of cos and sin folded.   *)
(***************************************************************************)
EXTENDS Integers, Sequences, FiniteSets, TLC

VARIABLES
    call,           \* engine harness: the pending call of a helper, with its arguments
    ret,            \* engine harness: what the call returned
    module,         \* the sidebar selectbox (line 48)
    session_state,  \* st.session_state: quiz_score, quiz_question (or not yet set)
    page,           \* what the last script run rendered in the Quick Quiz tab
    hunt_sides,     \* the Angle Hunt selectbox (line 435)
    scored,         \* Quick Quiz: the questions Submit Answer scored since the quiz (re)started
    inputs,         \* the widgets of the module selected that feed the helpers
    run,            \* the helper calls of the last script run, and the exception that ended it
    widgets,        \* Polygon Art Creator: the sliders of lines 514-523
    polygons,       \* Polygon Art Creator: the list built at lines 516-530
    traces,         \* Polygon Art Creator: the traces added to fig at lines 554-568
    event           \* the widget interaction (or call) that caused the last run

vars ==
    <<call, ret, module, session_state, page, hunt_sides, scored, inputs, run,
      widgets, polygons, traces, event>>

engineVars == <<call, ret>>

quizVars == <<module, session_state, page, hunt_sides, scored>>

artVars == <<widgets, polygons, traces>>

uiVars == <<inputs, run>>

----------------------------------------------------------------------------
\* Bounds of the model.

MaxSides == 1000    \* calculate_polygon_properties is tried on 0..MaxSides sides
MaxVertexSides == 12  \* create_regular_polygon is tried on -2..MaxVertexSides sides
MaxNum == 3         \* numerators of the lengths and areas tried
MaxDen == 2         \* denominators of the lengths and areas tried
MaxMoved == 3       \* art creator: at most MaxMoved sliders are off their defaults
MaxScored == 4      \* quick quiz: at most MaxScored scored questions are recorded

----------------------------------------------------------------------------
\* Exact arithmetic.

Abs(i) == IF i < 0 THEN -i ELSE i

Sign(i) == IF i < 0 THEN -1 ELSE IF i = 0 THEN 0 ELSE 1

RECURSIVE GCD(_, _)
GCD(a, b) == IF b = 0 THEN a ELSE GCD(b, a % b)

\* The rational p / q (q # 0), in lowest terms with a positive denominator.
Rat(p, q) ==
    LET g == GCD(Abs(p), Abs(q))
    IN  [num |-> Sign(q) * (p \div g), den |-> Abs(q) \div g]

RatAdd(a, b) == Rat(a.num * b.den + b.num * a.den, a.den * b.den)

\* sg * sqrt(n / d) * T^(e/2), normalised.
Surd(sg, n, d, e) ==
    IF sg = 0 \/ n = 0
    THEN [sg |-> 0, n |-> 0, d |-> 1, e |-> 0]
    ELSE LET g == GCD(n, d)
         IN  [sg |-> sg, n |-> n \div g, d |-> d \div g, e |-> e]

\* The rational p / q (q > 0) as a surd.
SRat(p, q) == Surd(Sign(p), p * p, q * q, 0)

SInt(i) == SRat(i, 1)

SMul(a, b) == Surd(a.sg * b.sg, a.n * b.n, a.d * b.d, a.e + b.e)

\* a / b, for b # 0.
SDiv(a, b) == Surd(a.sg * b.sg, a.n * b.d, a.d * b.n, a.e - b.e)

\* The integer square root of k, by bisection of lo..hi.
RECURSIVE SqrtIn(_, _, _)
SqrtIn(k, lo, hi) ==
    IF lo >= hi THEN lo
    ELSE LET mid == (lo + hi + 1) \div 2
         IN  IF mid * mid <= k THEN SqrtIn(k, mid, hi) ELSE SqrtIn(k, lo, mid - 1)

ISqrt(k) == SqrtIn(k, 0, IF k < 46340 THEN k ELSE 46340)

\* math.sqrt(a), for the a >= 0 whose root is a surd again.
SSqrt(a) == Surd(a.sg, ISqrt(a.n), ISqrt(a.d), a.e \div 2)

SPositive(a) == a.sg = 1

\* math.tan(math.pi / n), n >= 3: positive; 1 for n = 4, the symbol T otherwise.
Tan(n) == IF n = 4 THEN SInt(1) ELSE Surd(1, 1, 1, 2)

----------------------------------------------------------------------------
\* calculate_polygon_properties (lines 53-81).

None == [kind |-> "None"]

Dict(v) == [kind |-> "dict", val |-> v]

Raised(e) == [kind |-> "raised", error |-> e]

\* line 59, with the triangles of the fan miscounted
interior_angle_off(n_sides) == Rat((n_sides - 1) * 180, n_sides)

\* line 59
interior_angle(n_sides) == Rat((n_sides - 2) * 180, n_sides)

\* line 62
exterior_angle(n_sides) == Rat(360, n_sides)

\* line 65, counting the sides of an open path
perimeter_open(n_sides, side_length) == SMul(SInt(n_sides - 1), side_length)

\* line 65
perimeter(n_sides, side_length) == SMul(SInt(n_sides), side_length)

\* line 68
apothem(n_sides, side_length) == SDiv(side_length, SMul(SInt(2), Tan(n_sides)))

\* line 69
area(n_sides, side_length) ==
    SMul(SMul(SRat(1, 2), perimeter(n_sides, side_length)),
         apothem(n_sides, side_length))

\* line 72, with the half angle pi / n of line 68 taken for the central angle
central_angle_half(n_sides) == Rat(180, n_sides)

\* line 72
central_angle(n_sides) == Rat(360, n_sides)

\* The guard of line 55.
TooFewSides(n_sides) == n_sides < 3

calculate_polygon_properties(n_sides, side_length) ==
    IF TooFewSides(n_sides)
    THEN None
    ELSE Dict([interior_angle |-> interior_angle(n_sides),
               exterior_angle |-> exterior_angle(n_sides),
               perimeter |-> perimeter(n_sides, side_length),
               area |-> area(n_sides, side_length),
               central_angle |-> central_angle(n_sides),
               apothem |-> apothem(n_sides, side_length)])

----------------------------------------------------------------------------
\* Polygon Properties Calculator: the side length from what the user knows
\* (lines 328-341), then the properties (lines 346-347).

\* st.number_input("Number of sides:", min_value=3, max_value=50, ...), line 321
MaxCalcSides == 50

InputTypes == {"Side Length", "Perimeter", "Area", "Apothem"}

derive_side_length(calc_sides, input_type, known_value) ==
    CASE input_type = "Side Length" -> known_value
      [] input_type = "Perimeter" -> SDiv(known_value, SInt(calc_sides))
      [] input_type = "Area" ->
            LET apothem_est ==
                    SSqrt(SDiv(SDiv(SMul(known_value, SInt(2)), SInt(calc_sides)),
                               Tan(calc_sides)))
            IN  SMul(SMul(SInt(2), apothem_est), Tan(calc_sides))
      [] OTHER -> SMul(SMul(SInt(2), known_value), Tan(calc_sides))

calculator(calc_sides, input_type, known_value) ==
    LET side_length == derive_side_length(calc_sides, input_type, known_value)
    IN  [kind |-> "metrics",
         side_length |-> side_length,
         props |-> IF calc_sides >= 3
                   THEN calculate_polygon_properties(calc_sides, side_length)
                   ELSE None]

----------------------------------------------------------------------------
\* create_regular_polygon (lines 83-88).

\* A fraction of a turn, p / q of 2 pi, reduced into [0, 1).
Turn(p, q) == Rat(p % q, q)

Const(c) == [base |-> c, amp |-> 0, fn |-> "const", ph |-> Rat(0, 1)]

\* c + r * np.cos(2 pi * t)  (in the art creator c = 0 and r is in tenths)
CosCoord(c, r, t) ==
    CASE r = 0 -> Const(c)
      [] t = Rat(0, 1) -> Const(c + r)
      [] t = Rat(1, 2) -> Const(c - r)
      [] t \in {Rat(1, 4), Rat(3, 4)} -> Const(c)
      [] OTHER -> [base |-> c, amp |-> r, fn |-> "cos", ph |-> t]

\* c + r * np.sin(2 pi * t)
SinCoord(c, r, t) ==
    CASE r = 0 -> Const(c)
      [] t = Rat(1, 4) -> Const(c + r)
      [] t = Rat(3, 4) -> Const(c - r)
      [] t \in {Rat(0, 1), Rat(1, 2)} -> Const(c)
      [] OTHER -> [base |-> c, amp |-> r, fn |-> "sin", ph |-> t]

\* np.linspace(..., endpoint=False): the last sample stops short of the end.
linspace_open(num, k) == [p |-> k - 1, q |-> num]

\* Element k (of 1..num) of np.linspace(0, 2*np.pi, num), as the fraction p / q
\* of a turn: num evenly spaced angles, both ends included; a single sample is
\* the start. (A negative num raises ValueError.)
linspace(num, k) ==
    IF num = 1 THEN [p |-> 0, q |-> 1] ELSE [p |-> k - 1, q |-> num - 1]

\* The angle a, in turns, reduced into [0, 1).
TurnOf(a) == Turn(a.p, a.q)

create_regular_polygon(n_sides, center, radius) ==
    IF n_sides + 1 < 0
    THEN Raised("ValueError")
    ELSE [kind |-> "arrays",
          x |-> [k \in 1..(n_sides + 1) |->
                    CosCoord(center[1], radius, TurnOf(linspace(n_sides + 1, k)))],
          y |-> [k \in 1..(n_sides + 1) |->
                    SinCoord(center[2], radius, TurnOf(linspace(n_sides + 1, k)))]]

----------------------------------------------------------------------------
\* The engine harness: one call of a helper, on arguments of its domain.

Lengths == {SRat(p, q) : p \in -1..MaxNum, q \in 1..MaxDen}

PositiveLengths == {v \in Lengths : SPositive(v)}

Centers == {<<0, 0>>, <<1, -2>>}

Radii == -1..2

Calls ==
    [fn : {"calculate_polygon_properties"}, n_sides : 0..MaxSides,
     side_length : Lengths]
    \cup [fn : {"calculator"}, calc_sides : 3..MaxCalcSides, input_type : InputTypes,
          known_value : PositiveLengths]
    \cup [fn : {"create_regular_polygon"}, n_sides : -2..MaxVertexSides,
          center : Centers, radius : Radii]

Pending == [kind |-> "pending"]

CallProperties ==
    /\ call.fn = "calculate_polygon_properties"
    /\ ret = Pending
    /\ ret' = calculate_polygon_properties(call.n_sides, call.side_length)
    /\ event' = "call"
    /\ UNCHANGED <<call, quizVars, uiVars, artVars>>

CallCalculator ==
    /\ call.fn = "calculator"
    /\ ret = Pending
    /\ ret' = calculator(call.calc_sides, call.input_type, call.known_value)
    /\ event' = "call"
    /\ UNCHANGED <<call, quizVars, uiVars, artVars>>

CallCreate ==
    /\ call.fn = "create_regular_polygon"
    /\ ret = Pending
    /\ ret' = create_regular_polygon(call.n_sides, call.center, call.radius)
    /\ event' = "call"
    /\ UNCHANGED <<call, quizVars, uiVars, artVars>>

----------------------------------------------------------------------------
\* The call sites of the helpers: what one run of the script calls, module by
\* module, on the values of the module's widgets.

MaxKnown == 100     \* the largest known value tried in the calculator's number inputs

\* plot_polygon_plotly (lines 128-177). Line 130 divides by n_sides and by
\* 2 * math.sin(math.pi / n_sides), which is no float zero for any n_sides # 0;
\* line 131 passes n_sides + 1 to np.linspace. The figure is kept as the radius
\* side_length / (2 sin(pi / n_sides)), unevaluated, and the number of points.
plot_polygon_plotly(n_sides, side_length) ==
    IF n_sides = 0
    THEN Raised("ZeroDivisionError")
    ELSE IF n_sides + 1 < 0
         THEN Raised("ValueError")
         ELSE [kind |-> "figure",
               radius |-> [side_length |-> side_length, n_sides |-> n_sides],
               points |-> n_sides + 1]

\* What calculate_polygon_properties returns, None (lines 55-56) or a dict (lines
\* 74-81), with the numbers of the dict left uncomputed: the squares that the
\* surds keep of an area of 50 sides or of the two decimals of 0.87 pass 2^31.
returns(n_sides) == IF TooFewSides(n_sides) THEN None.kind ELSE Dict(<<>>).kind

\* A run so far: the helper calls made, in order, each with its arguments and
\* the kind of its result, and the exception that ended the run.
NoRun == [calls |-> <<>>, error |-> ""]

Running(r) == r.error = ""

Made(fn, n_sides, side_length, res) ==
    [fn |-> fn, n_sides |-> n_sides, side_length |-> side_length, ret |-> res]

\* props = calculate_polygon_properties(n_sides, side_length)
CallCalculate(r, n_sides, side_length) ==
    IF Running(r)
    THEN [r EXCEPT !.calls = Append(@, Made("calculate_polygon_properties", n_sides,
                                            side_length, returns(n_sides)))]
    ELSE r

\* fig = plot_polygon_plotly(n_sides, side_length)
CallPlot(r, n_sides, side_length) ==
    IF Running(r)
    THEN LET fig == plot_polygon_plotly(n_sides, side_length)
         IN  [calls |-> Append(r.calls, Made("plot_polygon_plotly", n_sides,
                                             side_length, fig.kind)),
              error |-> IF fig.kind = "raised" THEN fig.error ELSE ""]
    ELSE r

\* props['...'], props the result of the k-th call: None is not subscriptable.
Subscript(r, k) ==
    IF Running(r) /\ r.calls[k].ret = None.kind THEN [r EXCEPT !.error = "TypeError"] ELSE r

\* a / n, n an integer.
DivideBy(r, n) ==
    IF Running(r) /\ n = 0 THEN [r EXCEPT !.error = "ZeroDivisionError"] ELSE r

\* Introduction to Polygons (lines 219-238).
DemoSides == 3..12

IntroDefaults == [demo_sides |-> 6]

introduction(inp) ==
    Subscript(CallCalculate(CallPlot(NoRun, inp.demo_sides, SInt(1)),
                            inp.demo_sides, SInt(1)), 2)

\* Regular Polygons Explorer (lines 260-279); the slider of line 261 moves in
\* steps of 0.1.
ExplorerSides == 3..20

ExplorerLengths == {SRat(k, 10) : k \in 5..30}

ExplorerDefaults == [n_sides |-> 6, side_length |-> SInt(1)]

explorer(inp) ==
    CallPlot(Subscript(CallCalculate(NoRun, inp.n_sides, inp.side_length), 1),
             inp.n_sides, inp.side_length)

\* Polygon Properties Calculator (lines 321-366). A number input is a widget of
\* its own for each input type, so a change of type shows the default of the new
\* one; the inputs have a minimum of 0.1 and no maximum.
CalcSides == 3..MaxCalcSides

MinKnown == SRat(1, 10)

KnownDefault(input_type) ==
    CASE input_type = "Side Length" -> SInt(1)
      [] input_type = "Perimeter" -> SInt(6)
      [] input_type = "Area" -> SRat(13, 5)
      [] OTHER -> SRat(87, 100)

KnownValues(input_type) == {MinKnown, KnownDefault(input_type), SInt(MaxKnown)}

CalculatorDefaults ==
    [calc_sides |-> 6, input_type |-> "Side Length", known_value |-> SInt(1)]

properties_calculator(inp) ==
    LET derived == IF inp.input_type = "Side Length"
                   THEN NoRun
                   ELSE DivideBy(NoRun, inp.calc_sides)
        side_length == derive_side_length(inp.calc_sides, inp.input_type,
                                          inp.known_value)
    IN  IF inp.calc_sides >= 3
        THEN CallPlot(Subscript(CallCalculate(derived, inp.calc_sides, side_length), 1),
                      inp.calc_sides, side_length)
        ELSE derived

\* Quiz & Activities, the Angle Hunt and Property Match tabs (lines 431-496);
\* props is subscripted by the handler of Check Answers only.
polygons_data ==
    << [name |-> "Triangle", sides |-> 3, interior |-> 60, sum_interior |-> 180],
       [name |-> "Square", sides |-> 4, interior |-> 90, sum_interior |-> 360],
       [name |-> "Pentagon", sides |-> 5, interior |-> 108, sum_interior |-> 540],
       [name |-> "Hexagon", sides |-> 6, interior |-> 120, sum_interior |-> 720],
       [name |-> "Octagon", sides |-> 8, interior |-> 135, sum_interior |-> 1080] >>

PolygonNames == {polygons_data[k].name : k \in DOMAIN polygons_data}

QuizDefaults == [selected_polygon |-> "Triangle"]

quiz_activities(inp, hunt, clicked) ==
    LET tab2 == CallPlot(CallCalculate(NoRun, hunt, SInt(1)), hunt, SInt(1))
        checked == IF clicked = "Check Answers" THEN Subscript(tab2, 1) ELSE tab2
        polygon_info ==
            polygons_data[CHOOSE k \in DOMAIN polygons_data :
                             polygons_data[k].name = inp.selected_polygon]
    IN  DivideBy(CallPlot(checked, polygon_info.sides, SInt(1)), polygon_info.sides)

\* The Polygon Art Creator (lines 499-586) has its sliders in `widgets` and calls
\* no helper.
NoInputs == <<>>

DefaultInputs(m) ==
    CASE m = "Introduction to Polygons" -> IntroDefaults
      [] m = "Regular Polygons Explorer" -> ExplorerDefaults
      [] m = "Polygon Properties Calculator" -> CalculatorDefaults
      [] m = "Quiz & Activities" -> QuizDefaults
      [] OTHER -> NoInputs

\* The helper calls of one run of module m (lines 216-586) on the inputs inp and
\* the Angle Hunt choice hunt, the Quick Quiz tab having rendered pg, with the
\* button `clicked` pressed.
ModuleRun(m, inp, hunt, pg, clicked) ==
    CASE m = "Introduction to Polygons" -> introduction(inp)
      [] m = "Regular Polygons Explorer" -> explorer(inp)
      [] m = "Polygon Properties Calculator" -> properties_calculator(inp)
      [] m = "Quiz & Activities" ->
            IF pg.view = "IndexError"
            THEN [calls |-> <<>>, error |-> "IndexError"]
            ELSE quiz_activities(inp, hunt, clicked)
      [] OTHER -> NoRun

----------------------------------------------------------------------------
\* A session that has run no module but the first: st.session_state holds no key,
\* no quiz or art widget is on the page.
NoSession == [k \in {} |-> 0]

NoPage == [view |-> "none", q |-> 0, answer |-> ""]

NoWidgets == [num_polygons |-> 0, art_sides |-> <<>>, art_size |-> <<>>,
              art_rotation |-> <<>>]

AppStart ==
    /\ module = "Introduction to Polygons"
    /\ session_state = NoSession
    /\ page = NoPage
    /\ hunt_sides = 3
    /\ scored = <<>>
    /\ inputs = IntroDefaults
    /\ run = introduction(IntroDefaults)
    /\ widgets = NoWidgets
    /\ polygons = <<>>
    /\ traces = <<>>
    /\ event = "start"

NoCall == [fn |-> "none"]

EngineInit ==
    /\ call \in Calls
    /\ ret = Pending
    /\ AppStart

EngineNext == CallProperties \/ CallCalculator \/ CallCreate

SpecEngine == EngineInit /\ [][EngineNext]_vars

Returned == ret # Pending

----------------------------------------------------------------------------
\* Polygon Art Creator (lines 499-586). A size is kept in tenths (the slider
\* runs from 0.3 to 2.0 in steps of 0.1), a rotation in degrees.

\* st.slider("Number of polygons:", 1, 5, 3), line 514
MinPolygons == 1
MaxPolygons == 5
DefaultPolygons == 3

\* The slider values tried: sides of 3..12 (default 6), sizes of 0.3..2.0
\* (default 1.0), rotations of 0..360 in steps of 15 (default 0); lines 521-523.
ArtSides == {3, 6}
ArtSizes == {3, 10}
ArtRotations == {0, 15}

colors == <<"red", "blue", "green", "orange", "purple">>

color_palette ==
    <<"rgba(255, 99, 132, 0.4)", "rgba(54, 162, 235, 0.4)", "rgba(75, 192, 192, 0.4)",
      "rgba(255, 205, 86, 0.4)", "rgba(153, 102, 255, 0.4)">>

line_colors ==
    <<"rgb(255, 99, 132)", "rgb(54, 162, 235)", "rgb(75, 192, 192)",
      "rgb(255, 205, 86)", "rgb(153, 102, 255)">>

\* The sliders of a run showing k polygons: a slider shown before keeps its
\* value, a slider that was not on the page starts at its default.
ShowPolygons(w, k) ==
    [num_polygons |-> k,
     art_sides |-> [i \in 1..k |-> IF i <= w.num_polygons THEN w.art_sides[i] ELSE 6],
     art_size |-> [i \in 1..k |-> IF i <= w.num_polygons THEN w.art_size[i] ELSE 10],
     art_rotation |->
        [i \in 1..k |-> IF i <= w.num_polygons THEN w.art_rotation[i] ELSE 0]]

\* Lines 516-530; polygon i of the code (0-based) is entry i + 1.
build_polygons(w) ==
    [j \in 1..w.num_polygons |->
        [sides |-> w.art_sides[j],
         size |-> w.art_size[j],
         rotation |-> w.art_rotation[j],
         color |-> colors[((j - 1) % Len(colors)) + 1]]]

\* Lines 555-568: the trace of polygon i (0-based) of the list.
\* The angle a, in turns, plus np.radians(rotation).
Rotated(a, rotation) == [p |-> 360 * a.p + rotation * a.q, q |-> 360 * a.q]

\* Lines 555-568: the trace of polygon i (0-based) of the list.
\* angles = np.linspace(0, 2*np.pi, sides + 1) + np.radians(rotation)
trace(i, poly) ==
    [x |-> [k \in 1..(poly.sides + 1) |->
               CosCoord(0, poly.size,
                        TurnOf(Rotated(linspace(poly.sides + 1, k), poly.rotation)))],
     y |-> [k \in 1..(poly.sides + 1) |->
               SinCoord(0, poly.size,
                        TurnOf(Rotated(linspace(poly.sides + 1, k), poly.rotation)))],
     fillcolor |-> color_palette[(i % Len(color_palette)) + 1],
     line |-> line_colors[(i % Len(line_colors)) + 1],
     name |-> <<"Polygon", i + 1, poly.sides, "sides">>]

\* Line 554 walking the list from its end.
build_traces_reversed(polys) ==
    [j \in 1..Len(polys) |-> trace(j - 1, polys[Len(polys) + 1 - j])]

\* Line 554: for i, poly in enumerate(polygons): fig.add_trace(...)
build_traces(polys) == [j \in 1..Len(polys) |-> trace(j - 1, polys[j])]

\* One run of the art module's script on the sliders w.
ArtRun(w, e) ==
    /\ widgets' = w
    /\ polygons' = build_polygons(w)
    /\ traces' = build_traces(build_polygons(w))
    /\ event' = e
    /\ UNCHANGED <<engineVars, quizVars, uiVars>>

IsArt == module = "Polygon Art Creator"

SetNumPolygons ==
    /\ IsArt
    /\ \E k \in MinPolygons..MaxPolygons :
          /\ k # widgets.num_polygons
          /\ ArtRun(ShowPolygons(widgets, k), "widget")

\* The number of sliders of w that are off their defaults.
Moved(w) ==
    Cardinality({i \in 1..w.num_polygons : w.art_sides[i] # 6})
    + Cardinality({i \in 1..w.num_polygons : w.art_size[i] # 10})
    + Cardinality({i \in 1..w.num_polygons : w.art_rotation[i] # 0})

SetArtSides ==
    /\ IsArt
    /\ \E i \in 1..widgets.num_polygons : \E v \in ArtSides \ {widgets.art_sides[i]} :
          /\ Moved([widgets EXCEPT !.art_sides[i] = v]) <= MaxMoved
          /\ ArtRun([widgets EXCEPT !.art_sides[i] = v], "widget")

SetArtSize ==
    /\ IsArt
    /\ \E i \in 1..widgets.num_polygons : \E v \in ArtSizes \ {widgets.art_size[i]} :
          /\ Moved([widgets EXCEPT !.art_size[i] = v]) <= MaxMoved
          /\ ArtRun([widgets EXCEPT !.art_size[i] = v], "widget")

SetArtRotation ==
    /\ IsArt
    /\ \E i \in 1..widgets.num_polygons : \E v \in ArtRotations \ {widgets.art_rotation[i]} :
          /\ Moved([widgets EXCEPT !.art_rotation[i] = v]) <= MaxMoved
          /\ ArtRun([widgets EXCEPT !.art_rotation[i] = v], "widget")

\* Lines 585-586: the button only reruns the script.
RandomArt ==
    /\ IsArt
    /\ ArtRun(widgets, "widget")

\* The art module just selected: its first run, every slider at its default.
ArtInit ==
    /\ call = NoCall
    /\ ret = Pending
    /\ module = "Polygon Art Creator"
    /\ session_state = NoSession
    /\ page = NoPage
    /\ hunt_sides = 3
    /\ scored = <<>>
    /\ inputs = NoInputs
    /\ run = NoRun
    /\ widgets = ShowPolygons(NoWidgets, DefaultPolygons)
    /\ polygons = build_polygons(ShowPolygons(NoWidgets, DefaultPolygons))
    /\ traces = build_traces(build_polygons(ShowPolygons(NoWidgets, DefaultPolygons)))
    /\ event = "module"

ArtNext == SetNumPolygons \/ SetArtSides \/ SetArtSize \/ SetArtRotation \/ RandomArt

SpecArt == ArtInit /\ [][ArtNext]_vars

----------------------------------------------------------------------------
\* Quiz & Activities (lines 370-496): the Quick Quiz tab and the session state.
\* Every widget interaction reruns the script from the top. A widget that a run
\* does not render loses its value; a radio is keyed by the question it shows.

Modules ==
    {"Introduction to Polygons", "Regular Polygons Explorer",
     "Polygon Properties Calculator", "Quiz & Activities", "Polygon Art Creator"}

\* Lines 384-403.
quiz_questions ==
    << [question |-> "What is the sum of interior angles in a pentagon?",
        options |-> <<"360", "540", "720", "900">>,
        correct |-> 1],
       [question |-> "How many sides does a decagon have?",
        options |-> <<"8", "9", "10", "12">>,
        correct |-> 2],
       [question |-> "What is each exterior angle of a regular hexagon?",
        options |-> <<"45", "60", "90", "120">>,
        correct |-> 1] >>

\* Line 435 with a two-sided polygon among the choices.
HuntChoicesWithDigon == {2, 3, 4, 5, 6, 8}

\* st.selectbox("Choose polygon:", [3, 4, 5, 6, 8], key="hunt"), line 435
HuntChoices == {3, 4, 5, 6, 8}

\* f with key k set to v.
Put(f, k, v) == [x \in DOMAIN f \cup {k} |-> IF x = k THEN v ELSE f[x]]

\* Lines 374-377 without their `not in` tests: every run starts the quiz afresh.
init_session_reset(ss) == Put(Put(ss, "quiz_score", 0), "quiz_question", 0)

\* Lines 374-377.
init_session(ss) ==
    LET s1 == IF "quiz_score" \notin DOMAIN ss THEN Put(ss, "quiz_score", 0) ELSE ss
    IN  IF "quiz_question" \notin DOMAIN s1 THEN Put(s1, "quiz_question", 0) ELSE s1

\* Line 405 with <= for <.
quiz_incomplete_off(ss) == ss["quiz_question"] <= Len(quiz_questions)

\* Line 405.
quiz_incomplete(ss) == ss["quiz_question"] < Len(quiz_questions)

\* Line 412 with the position of the answer counted from 1.
index_one_based(options, answer) ==
    CHOOSE i \in 1..Len(options) : options[i] = answer

\* q['options'].index(answer), 0-based.
index(options, answer) == (CHOOSE i \in 1..Len(options) : options[i] = answer) - 1

\* The value of st.radio(..., q['options'], key=f"q{i}") in a run that follows
\* page pg: the option chosen, when the page showed this radio, else the first.
radio(pg, i) ==
    IF pg.view = "question" /\ pg.q = i THEN pg.answer ELSE quiz_questions[i + 1].options[1]

\* One run of the Quick Quiz tab (lines 374-429) on session state ss, after page
\* pg, with the button `clicked` pressed ("" for none): the session state and the
\* page it leaves. An index past the end of quiz_questions is an IndexError
\* (line 406), which ends the run.
RECURSIVE quick_quiz(_, _, _)
quick_quiz(ss, pg, clicked) ==
    LET s0 == init_session(ss)
        i == s0["quiz_question"]
    IN  IF quiz_incomplete(s0)
        THEN IF i + 1 \notin DOMAIN quiz_questions
             THEN [ss |-> s0, page |-> [view |-> "IndexError", q |-> i, answer |-> ""]]
             ELSE LET q == quiz_questions[i + 1]
                      answer == radio(pg, i)
                      shown == [view |-> "question", q |-> i, answer |-> answer]
                  IN  IF clicked = "Submit Answer"
                      THEN LET s1 == IF index(q.options, answer) = q.correct
                                     THEN [s0 EXCEPT !["quiz_score"] = @ + 1]
                                     ELSE s0
                           IN  [ss |-> [s1 EXCEPT !["quiz_question"] = @ + 1],
                                page |-> shown]
                      ELSE [ss |-> s0, page |-> shown]
        ELSE IF clicked = "Restart Quiz"
             THEN quick_quiz([s0 EXCEPT !["quiz_score"] = 0, !["quiz_question"] = 0],
                             NoPage, "")
             ELSE [ss |-> s0, page |-> [view |-> "complete", q |-> i, answer |-> ""]]

\* The record of the questions scored: a run that takes the branch of lines
\* 412-419 scores the question quiz_question points at, a run that takes the
\* branch of lines 427-428 starts the quiz again.
scoring(ss, hist, clicked) ==
    LET s0 == init_session(ss)
    IN  IF quiz_incomplete(s0)
        THEN IF /\ clicked = "Submit Answer"
                /\ s0["quiz_question"] + 1 \in DOMAIN quiz_questions
                /\ Len(hist) < MaxScored
             THEN Append(hist, s0["quiz_question"])
             ELSE hist
        ELSE IF clicked = "Restart Quiz" THEN <<>> ELSE hist

IsQuiz == module = "Quiz & Activities"

\* A run of the script with the quiz module selected.
QuizRun(pg, clicked) ==
    /\ session_state' = quick_quiz(session_state, pg, clicked).ss
    /\ page' = quick_quiz(session_state, pg, clicked).page
    /\ scored' = scoring(session_state, scored, clicked)

\* The helper calls of the run that a step makes.
Render(clicked) == run' = ModuleRun(module', inputs', hunt_sides', page', clicked)

\* The sidebar selectbox (lines 48-51): the script runs the module chosen; the
\* widgets of the module left are gone.
SelectModule ==
    \E m \in Modules \ {module} :
       /\ module' = m
       /\ hunt_sides' = 3
       /\ IF m = "Quiz & Activities"
          THEN QuizRun(NoPage, "")
          ELSE /\ page' = NoPage
               /\ UNCHANGED <<session_state, scored>>
       /\ inputs' = DefaultInputs(m)
       /\ event' = "module"
       /\ UNCHANGED <<engineVars, artVars>>
       /\ Render("")

\* The radio of line 409, on the page.
SelectAnswer ==
    /\ IsQuiz
    /\ page.view = "question"
    /\ \E a \in 1..Len(quiz_questions[page.q + 1].options) :
          /\ quiz_questions[page.q + 1].options[a] # page.answer
          /\ QuizRun([page EXCEPT !.answer = quiz_questions[page.q + 1].options[a]], "")
    /\ event' = "radio"
    /\ UNCHANGED <<engineVars, artVars, module, hunt_sides, inputs>>
    /\ Render("")

\* The button of line 411, on the page.
SubmitAnswer ==
    /\ IsQuiz
    /\ page.view = "question"
    /\ QuizRun(page, "Submit Answer")
    /\ event' = "Submit Answer"
    /\ UNCHANGED <<engineVars, artVars, module, hunt_sides, inputs>>
    /\ Render("")

\* The button of line 426, on the page.
RestartQuiz ==
    /\ IsQuiz
    /\ page.view = "complete"
    /\ QuizRun(page, "Restart Quiz")
    /\ event' = "Restart Quiz"
    /\ UNCHANGED <<engineVars, artVars, module, hunt_sides, inputs>>
    /\ Render("")

\* The selectbox of line 435.
SelectHunt ==
    /\ IsQuiz
    /\ \E v \in HuntChoices \ {hunt_sides} : hunt_sides' = v
    /\ QuizRun(page, "")
    /\ event' = "hunt"
    /\ UNCHANGED <<engineVars, artVars, module, inputs>>
    /\ Render("")

\* Any other interaction (a number input of the Angle Hunt, a checkbox of the
\* explorer): a rerun of the module selected.
Rerun ==
    /\ IF IsQuiz THEN QuizRun(page, "") ELSE UNCHANGED <<session_state, page, scored>>
    /\ event' = "rerun"
    /\ UNCHANGED <<engineVars, artVars, module, hunt_sides, inputs>>
    /\ Render("")

\* The button of line 454, on the page.
CheckAnswers ==
    /\ IsQuiz
    /\ QuizRun(page, "Check Answers")
    /\ event' = "Check Answers"
    /\ UNCHANGED <<engineVars, artVars, module, hunt_sides, inputs>>
    /\ Render("Check Answers")

\* The selectbox of line 481.
SelectPolygon ==
    /\ IsQuiz
    /\ \E v \in PolygonNames \ {inputs.selected_polygon} :
          inputs' = [inputs EXCEPT !.selected_polygon = v]
    /\ QuizRun(page, "")
    /\ event' = "polygon"
    /\ UNCHANGED <<engineVars, artVars, module, hunt_sides>>
    /\ Render("")

\* A run of a module other than the quiz on the inputs inp.
WidgetRun(inp) ==
    /\ inputs' = inp
    /\ event' = "widget"
    /\ UNCHANGED <<engineVars, artVars, quizVars>>
    /\ Render("")

\* The slider of line 220.
SetDemoSides ==
    /\ module = "Introduction to Polygons"
    /\ \E v \in DemoSides \ {inputs.demo_sides} :
          WidgetRun([inputs EXCEPT !.demo_sides = v])

\* The slider of line 260.
SetExplorerSides ==
    /\ module = "Regular Polygons Explorer"
    /\ \E v \in ExplorerSides \ {inputs.n_sides} :
          WidgetRun([inputs EXCEPT !.n_sides = v])

\* The slider of line 261.
SetExplorerLength ==
    /\ module = "Regular Polygons Explorer"
    /\ \E v \in ExplorerLengths \ {inputs.side_length} :
          WidgetRun([inputs EXCEPT !.side_length = v])

\* The number input of line 321.
SetCalcSides ==
    /\ module = "Polygon Properties Calculator"
    /\ \E v \in CalcSides \ {inputs.calc_sides} :
          WidgetRun([inputs EXCEPT !.calc_sides = v])

\* The selectbox of lines 323-326.
SetInputType ==
    /\ module = "Polygon Properties Calculator"
    /\ \E v \in InputTypes \ {inputs.input_type} :
          WidgetRun([inputs EXCEPT !.input_type = v, !.known_value = KnownDefault(v)])

\* The number input of line 329, 332, 335 or 340.
SetKnownValue ==
    /\ module = "Polygon Properties Calculator"
    /\ \E v \in KnownValues(inputs.input_type) \ {inputs.known_value} :
          WidgetRun([inputs EXCEPT !.known_value = v])

QuizInit ==
    /\ call = NoCall
    /\ ret = Pending
    /\ AppStart

QuizNext ==
    SelectModule \/ SelectAnswer \/ SubmitAnswer \/ RestartQuiz \/ SelectHunt \/ Rerun

SpecQuiz == QuizInit /\ [][QuizNext]_vars

\* The application: every module but the art creator's sliders (SpecArt).
AppInit == QuizInit

AppNext ==
    \/ QuizNext
    \/ CheckAnswers
    \/ SelectPolygon
    \/ SetDemoSides
    \/ SetExplorerSides
    \/ SetExplorerLength
    \/ SetCalcSides
    \/ SetInputType
    \/ SetKnownValue

SpecApp == AppInit /\ [][AppNext]_vars

Initialised == {"quiz_score", "quiz_question"} \subseteq DOMAIN session_state

quiz_score == session_state["quiz_score"]

quiz_question == session_state["quiz_question"]

----------------------------------------------------------------------------
\* The claims about the engine, checked under SpecEngine.

IsPropertiesCall == call.fn = "calculate_polygon_properties" /\ Returned

IsCalculatorCall == call.fn = "calculator" /\ Returned

IsCreateCall == call.fn = "create_regular_polygon" /\ Returned

\* C1: calculate_polygon_properties fails with an InvalidPolygonError for every
\* input with sides < 3 and for every input with side length <= 0, and returns
\* neither a properties value nor a placeholder for them. (Any error raised is
\* taken for the failure.)
C1_InvalidInputRaises ==
    (IsPropertiesCall /\ (call.n_sides < 3 \/ ~SPositive(call.side_length)))
        => ret.kind = "raised"

\* C2: create_regular_polygon fails with an InvalidPolygonError for every input
\* with sides < 3 and for every input with radius <= 0, and produces no vertex
\* set for them. (Any error raised is taken for the failure.)
C2_InvalidInputRaises ==
    (IsCreateCall /\ (call.n_sides < 3 \/ call.radius <= 0))
        => ret.kind = "raised"

\* C3: the side length the calculator derives from a known area A satisfies
\* A = sides * side^2 / (4 * tan(pi / sides)): the area computed from the
\* derived side length is A again.
C3_AreaRoundTrip ==
    (IsCalculatorCall /\ call.input_type = "Area")
        => (/\ ret.props.kind = "dict"
            /\ ret.props.val.area = call.known_value
            /\ SDiv(SMul(SInt(call.calc_sides), SMul(ret.side_length, ret.side_length)),
                    SMul(SInt(4), Tan(call.calc_sides))) = call.known_value)

\* C4: the perimeter round trip. The side length derived from the perimeter that
\* calculate_polygon_properties(sides, s) returns is s, for sides >= 3 and
\* s > 0; and the perimeter computed from a perimeter-derived side length is the
\* perimeter supplied.
C4_PerimeterRoundTrip ==
    /\ (IsPropertiesCall /\ call.n_sides >= 3 /\ SPositive(call.side_length))
        => (/\ ret.kind = "dict"
            /\ derive_side_length(call.n_sides, "Perimeter", ret.val.perimeter)
                  = call.side_length)
    /\ (IsCalculatorCall /\ call.input_type = "Perimeter")
        => (/\ ret.props.kind = "dict"
            /\ ret.side_length = SDiv(call.known_value, SInt(call.calc_sides))
            /\ ret.props.val.perimeter = call.known_value)

C4_Witness ==
    /\ IsCalculatorCall
    /\ call.input_type = "Perimeter"
    /\ call.calc_sides = 7
    /\ call.known_value = SRat(3, 2)
    /\ ret.side_length = SRat(3, 14)
    /\ ret.props.val.perimeter = SRat(3, 2)

\* C5: for every integer sides in 3..1000 and every side length > 0 the interior
\* and the exterior angle returned sum to 180 degrees.
C5_AnglesSumTo180 ==
    (IsPropertiesCall /\ call.n_sides \in 3..1000 /\ SPositive(call.side_length))
        => (/\ ret.kind = "dict"
            /\ RatAdd(ret.val.interior_angle, ret.val.exterior_angle) = Rat(180, 1))

C5_Witness ==
    /\ IsPropertiesCall
    /\ call.n_sides = 1000
    /\ SPositive(call.side_length)
    /\ ret.val.interior_angle = Rat(4491, 25)
    /\ ret.val.exterior_angle = Rat(9, 25)

\* C6: for every valid input (sides >= 3, side length > 0) the exterior angle and
\* the central angle returned are equal, both 360 / sides.
C6_ExteriorIsCentral ==
    (IsPropertiesCall /\ call.n_sides >= 3 /\ SPositive(call.side_length))
        => (/\ ret.kind = "dict"
            /\ ret.val.exterior_angle = ret.val.central_angle
            /\ ret.val.central_angle.num * call.n_sides = 360 * ret.val.central_angle.den)

C6_Witness ==
    /\ IsPropertiesCall
    /\ call.n_sides = 7
    /\ call.side_length = SRat(1, 2)
    /\ ret.val.exterior_angle = Rat(360, 7)
    /\ ret.val.central_angle = Rat(360, 7)

\* C7: for sides >= 3, any center and radius > 0, create_regular_polygon returns
\* exactly sides + 1 points, the first (center.x + radius, center.y) and the last
\* equal to the first.
C7_ClosedLoop ==
    (IsCreateCall /\ call.n_sides >= 3 /\ call.radius > 0)
        => (/\ ret.kind = "arrays"
            /\ Len(ret.x) = call.n_sides + 1
            /\ Len(ret.y) = call.n_sides + 1
            /\ ret.x[1] = Const(call.center[1] + call.radius)
            /\ ret.y[1] = Const(call.center[2])
            /\ ret.x[call.n_sides + 1] = ret.x[1]
            /\ ret.y[call.n_sides + 1] = ret.y[1])

C7_Witness ==
    /\ IsCreateCall
    /\ call.n_sides = 5
    /\ call.center = <<1, -2>>
    /\ call.radius = 2
    /\ Len(ret.x) = 6
    /\ ret.x[1] = Const(3)
    /\ ret.x[6] = Const(3)
    /\ ret.y[6] = Const(-2)
    /\ ret.x[2] = [base |-> 1, amp |-> 2, fn |-> "cos", ph |-> Rat(1, 5)]

----------------------------------------------------------------------------
\* The claim about the art creator, checked under SpecArt.

\* C8: the traces are as many as the polygons entered (1..5), in their order:
\* trace i is built from the sides, the size and the rotation of entry i alone.
C8_TracesFollowSpecs ==
    IsArt =>
        /\ widgets.num_polygons \in MinPolygons..MaxPolygons
        /\ Len(polygons) = widgets.num_polygons
        /\ Len(traces) = Len(polygons)
        /\ \A i \in 1..widgets.num_polygons :
              /\ polygons[i].sides = widgets.art_sides[i]
              /\ polygons[i].size = widgets.art_size[i]
              /\ polygons[i].rotation = widgets.art_rotation[i]
              /\ traces[i].name = <<"Polygon", i, widgets.art_sides[i], "sides">>
              /\ Len(traces[i].x) = widgets.art_sides[i] + 1
              /\ Len(traces[i].y) = widgets.art_sides[i] + 1
              /\ traces[i].x[1]
                    = CosCoord(0, widgets.art_size[i], Turn(widgets.art_rotation[i], 360))
              /\ traces[i].y[1]
                    = SinCoord(0, widgets.art_size[i], Turn(widgets.art_rotation[i], 360))

C8_Witness ==
    /\ IsArt
    /\ widgets.num_polygons = 5
    /\ widgets.art_sides = <<3, 6, 6, 6, 6>>
    /\ widgets.art_rotation = <<0, 15, 0, 0, 0>>
    /\ widgets.art_size = <<10, 10, 10, 3, 10>>
    /\ Len(traces) = 5
    /\ Len(traces[1].x) = 4
    /\ Len(traces[5].x) = 7
    /\ traces[2].x[1] = [base |-> 0, amp |-> 10, fn |-> "cos", ph |-> Rat(1, 24)]
    /\ traces[4].x[1] = Const(3)

----------------------------------------------------------------------------
\* The claims about the quiz, checked under SpecQuiz.

\* C9: in every state of a session, 0 <= quiz_score <= quiz_question <= 3 (the
\* number of questions), and no run indexes quiz_questions past its end.
C9_ScoreQuestionBounds ==
    /\ Initialised =>
          /\ 0 <= quiz_score
          /\ quiz_score <= quiz_question
          /\ quiz_question <= Len(quiz_questions)
    /\ page.view # "IndexError"
    /\ page.view = "question" => page.q + 1 \in DOMAIN quiz_questions

\* Submit Answer clicked once more on the page of the last question's result.
C9_Witness ==
    /\ IsQuiz
    /\ event = "Submit Answer"
    /\ page.view = "complete"
    /\ quiz_score = 3
    /\ quiz_question = 3

RestartOffered == IsQuiz /\ page.view = "complete"

\* C10: Restart Quiz is offered only when every question has been answered;
\* clicking it sets quiz_score and quiz_question to 0; and no other step (a
\* rerun, a change of module, the return to the quiz) resets or decreases either
\* once they are initialised.
C10_ResetSemantics ==
    /\ [](RestartOffered => (Initialised /\ quiz_question >= Len(quiz_questions)))
    /\ [][RestartQuiz => (quiz_score' = 0 /\ quiz_question' = 0)]_vars
    /\ [][(Initialised /\ ~RestartQuiz)
             => (/\ Initialised'
                 /\ quiz_score' >= quiz_score
                 /\ quiz_question' >= quiz_question)]_vars

C10_Witness ==
    /\ IsQuiz
    /\ event = "Restart Quiz"
    /\ Initialised
    /\ quiz_score = 0
    /\ quiz_question = 0
    /\ page = [view |-> "question", q |-> 0, answer |-> "360"]

\* The option of question i (counted from 0) that line 412 scores.
CorrectOption(i) == quiz_questions[i + 1].options[quiz_questions[i + 1].correct + 1]

\* C11: a Submit Answer click while the quiz is incomplete advances
\* quiz_question by exactly 1 whatever the answer, and adds exactly 1 to
\* quiz_score if the option the run reads from the radio is the correct option of
\* the question, and nothing otherwise; no question is scored twice; the number
\* of submits since the quiz started or restarted is quiz_question, so the quiz
\* is complete after exactly three of them.
C11_SubmitAdvances ==
    /\ [][(SubmitAnswer /\ quiz_incomplete(session_state))
             => (/\ quiz_question' = quiz_question + 1
                 /\ quiz_score' = quiz_score
                       + (IF page'.answer = CorrectOption(quiz_question) THEN 1 ELSE 0)
                 /\ scored' = Append(scored, quiz_question))]_vars
    /\ [](\A j, k \in DOMAIN scored : scored[j] = scored[k] => j = k)
    /\ [](Initialised =>
             (/\ Len(scored) = quiz_question
              /\ ~quiz_incomplete(session_state) <=> Len(scored) = Len(quiz_questions)))
    /\ [](~Initialised => scored = <<>>)

\* A quiz just completed by its third submit, the first answer wrong, the other
\* two right.
C11_Witness ==
    /\ IsQuiz
    /\ event = "Submit Answer"
    /\ scored = <<0, 1, 2>>
    /\ quiz_question = 3
    /\ quiz_score = 2
    /\ page = [view |-> "question", q |-> 2, answer |-> "60"]

----------------------------------------------------------------------------
\* The claim about the call sites, checked under SpecApp.

\* C12: every call of calculate_polygon_properties and of plot_polygon_plotly
\* that a run of any module makes has n_sides >= 3 and side_length > 0, none
\* returns None or raises, and no run ends in an exception (None subscripted,
\* a division by zero).
C12_CallSitesValid ==
    /\ run.error = ""
    /\ \A k \in DOMAIN run.calls :
          /\ run.calls[k].n_sides >= 3
          /\ SPositive(run.calls[k].side_length)
          /\ run.calls[k].ret \in {"dict", "figure"}

\* The calculator on the largest polygon and the smallest area.
C12_Witness ==
    /\ module = "Polygon Properties Calculator"
    /\ event = "widget"
    /\ inputs = [calc_sides |-> MaxCalcSides, input_type |-> "Area", known_value |-> MinKnown]
    /\ Len(run.calls) = 2
    /\ run.calls[1].fn = "calculate_polygon_properties"
    /\ run.calls[1].ret = "dict"
    /\ run.calls[2].fn = "plot_polygon_plotly"
    /\ run.calls[2].n_sides = MaxCalcSides

====
